---- MODULE Spec2Model ----
(***************************************************************************)
(* Model of the image combiner (src/main.rs): the dimension reconciler     *)
(* get_smallest_dimensions, the resampling stage standardise_size, the     *)
(* pixel interleaver alternative_pixels / set_rgba, the output image       *)
(* FloatingImage (new, set_data) and the pipeline driver main.             *)
(*                                                                         *)
(* u32 and usize values can exceed what TLC's integers hold, so sizes are  *)
(* kept as natural numbers in base 256: a Num is a little-endian sequence  *)
(* of bytes without leading zero bytes (<<>> is 0).  A u32 is a Num of at  *)
(* most four bytes.                                                        *)
(***************************************************************************)
EXTENDS Integers, Sequences, FiniteSets, TLC

VARIABLES
    overflow_checks,   \* the build: TRUE = arithmetic overflow panics (debug),
                       \* FALSE = u32 arithmetic wraps modulo 2^32 (release)
    \* ---- main's locals and the world around it
    pc,                \* position of main
    file_1, file_2,    \* what lies at args.image_1 / args.image_2
    image_1, image_2,  \* the DynamicImages
    image_format_1, image_format_2,
    output,            \* the FloatingImage
    combined_data,     \* the Vec<u8> combine_images returned
    result,            \* what main returned: "Ok", an ImageDataErrors, "panic"
    stdout,            \* lines printed by standardise_size
    resize_calls,      \* on which images resize_exact was invoked, in order
    stages,            \* the calls main made so far, in order
    written,           \* number of save_buffer_with_format calls made
    \* ---- get_smallest_dimensions called on its own
    dimA, dimB, targetDim,
    \* ---- alternative_pixels called on its own
    bufA, bufB, merged,
    \* ---- FloatingImage used on its own
    last_set,          \* the last set_data call: its argument, its result
                       \* and the image's data before it
    set_count          \* number of set_data calls made

pipeVars == <<pc, file_1, file_2, image_1, image_2, image_format_1,
              image_format_2, combined_data, result, stdout, resize_calls,
              stages, written>>
dimVars  == <<dimA, dimB, targetDim>>
pixVars  == <<bufA, bufB, merged>>
fiVars   == <<output, last_set, set_count>>
vars     == <<overflow_checks, pipeVars, fiVars, dimVars, pixVars>>

(***************************************************************************)
(* Bounds of the model                                                     *)
(***************************************************************************)
MaxDim    == 3   \* small widths and heights: 0..MaxDim, 1..MaxDim for images
MaxPixels == 3   \* whole pixels in a buffer given to alternative_pixels
MaxBuf    == 5   \* lengths and capacities of buffers given to set_data
MaxCalls  == 2   \* set_data calls made on one FloatingImage

\* widths and heights large enough for u32 products to overflow
BigDims == {2^15, 2^16, 2^16 + 1}

\* not there yet: a value, a format, main's result
None     == [none |-> TRUE]
NoFormat == "none"
NoResult == "none"

(***************************************************************************)
(* Natural numbers in base 256                                             *)
(***************************************************************************)
RECURSIVE Trim(_)
Trim(s) ==
    IF s = <<>> THEN <<>>
    ELSE IF s[Len(s)] = 0 THEN Trim(SubSeq(s, 1, Len(s) - 1)) ELSE s

RECURSIVE ToNum(_)
ToNum(n) == IF n = 0 THEN <<>> ELSE <<n % 256>> \o ToNum(n \div 256)

RECURSIVE ToInt(_)
ToInt(a) == IF a = <<>> THEN 0 ELSE a[1] + 256 * ToInt(Tail(a))

NumLess(a, b) ==
    \/ Len(a) < Len(b)
    \/ /\ Len(a) = Len(b)
       /\ \E i \in 1..Len(a) :
            a[i] < b[i] /\ \A j \in (i + 1)..Len(a) : a[j] = b[j]

NumLeq(a, b) == a = b \/ NumLess(a, b)

RECURSIVE Carry(_, _)
Carry(cols, c) ==
    IF cols = <<>>
    THEN IF c = 0 THEN <<>> ELSE <<c % 256>> \o Carry(<<>>, c \div 256)
    ELSE <<(cols[1] + c) % 256>> \o Carry(Tail(cols), (cols[1] + c) \div 256)

Limb(a, i) == IF i \in 1..Len(a) THEN a[i] ELSE 0

NumAdd(a, b) ==
    LET n == IF Len(a) > Len(b) THEN Len(a) ELSE Len(b)
    IN  IF n = 0 THEN <<>>
        ELSE Trim(Carry([k \in 1..n |-> Limb(a, k) + Limb(b, k)], 0))

RECURSIVE ColSum(_, _, _, _)
ColSum(a, b, k, i) ==
    IF i > Len(a) THEN 0
    ELSE a[i] * Limb(b, k - i + 1) + ColSum(a, b, k, i + 1)

NumMul(a, b) ==
    IF a = <<>> \/ b = <<>> THEN <<>>
    ELSE Trim(Carry([k \in 1..(Len(a) + Len(b)) |-> ColSum(a, b, k, 1)], 0))

\* quotient and remainder of a Num by a small positive integer
RECURSIVE DivMod(_, _)
DivMod(a, d) ==
    IF a = <<>> THEN [q |-> <<>>, r |-> 0]
    ELSE LET hi  == DivMod(Tail(a), d)
             cur == hi.r * 256 + a[1]
         IN  [q |-> <<cur \div d>> \o hi.q, r |-> cur % d]

NumDiv(a, d) == Trim(DivMod(a, d).q)
NumMod(a, d) == DivMod(a, d).r

(***************************************************************************)
(* u32 arithmetic.  `a * b` on u32 panics on overflow in a build with      *)
(* overflow checks and wraps modulo 2^32 in a build without.               *)
(***************************************************************************)
Fits32(n) == Len(n) <= 4
Wrap32(n) == Trim(SubSeq(n, 1, IF Len(n) < 4 THEN Len(n) ELSE 4))

U32Mul(a, b) ==
    [overflow |-> ~Fits32(NumMul(a, b)), val |-> Wrap32(NumMul(a, b))]

Panic == [panic |-> TRUE]
Returned(v) == [panic |-> FALSE, val |-> v]

\* the area of a dimension pair as a mathematical integer
Area(dim) == NumMul(ToNum(dim[1]), ToNum(dim[2]))

\* get_smallest_dimensions with `<=` for `<`: the first argument wins a tie
get_smallest_dimensions_leq(dim_1, dim_2) ==
    LET pix_1 == U32Mul(ToNum(dim_1[1]), ToNum(dim_1[2]))
        pix_2 == U32Mul(ToNum(dim_2[1]), ToNum(dim_2[2]))
    IN  IF overflow_checks /\ (pix_1.overflow \/ pix_2.overflow)
        THEN Panic
        ELSE Returned(IF NumLeq(pix_1.val, pix_2.val) THEN dim_1 ELSE dim_2)

(***************************************************************************)
(* get_smallest_dimensions (main.rs 86-91)                                 *)
(***************************************************************************)
get_smallest_dimensions(dim_1, dim_2) ==
    LET pix_1 == U32Mul(ToNum(dim_1[1]), ToNum(dim_1[2]))
        pix_2 == U32Mul(ToNum(dim_2[1]), ToNum(dim_2[2]))
    IN  IF overflow_checks /\ (pix_1.overflow \/ pix_2.overflow)
        THEN Panic
        ELSE Returned(IF NumLess(pix_1.val, pix_2.val) THEN dim_1 ELSE dim_2)

(***************************************************************************)
(* set_rgba (main.rs 123-134): the bytes vec[start..=end], or the panic    *)
(* "Index out of bounds".  Rust indexes from 0, sequences here from 1.     *)
(***************************************************************************)
set_rgba(vec, start, end) ==
    IF \E i \in start..end : i >= Len(vec)
    THEN Panic
    ELSE Returned([k \in 1..(end - start + 1) |-> vec[start + k]])

\* Vec::splice(start..=end, replace_with) as the statement at main.rs 115-116
\* uses it: the range must lie within the vector, else the call panics
splice(v, start, end, replace_with) ==
    IF end + 1 > Len(v)
    THEN Panic
    ELSE Returned(SubSeq(v, 1, start) \o replace_with
                    \o SubSeq(v, end + 2, Len(v)))

(***************************************************************************)
(* alternative_pixels (main.rs 109-121)                                    *)
(***************************************************************************)
RECURSIVE alternative_pixels_loop(_, _, _, _)
alternative_pixels_loop(vec_1, vec_2, combined, i) ==
    IF i < Len(vec_1)
    THEN LET rgba == IF i % 8 = 0 THEN set_rgba(vec_1, i, i + 3)
                                  ELSE set_rgba(vec_2, i, i + 3)
         IN  IF rgba.panic THEN Panic
             ELSE LET sp == splice(combined, i, i + 3, rgba.val)
                  IN  IF sp.panic THEN Panic
                      ELSE alternative_pixels_loop(vec_1, vec_2, sp.val, i + 4)
    ELSE Returned(combined)

\* alternative_pixels with the two sources exchanged in the loop
alternative_pixels_swapped(vec_1, vec_2) ==
    alternative_pixels_loop(vec_2, vec_1, [k \in 1..Len(vec_1) |-> 0], 0)

alternative_pixels(vec_1, vec_2) ==
    alternative_pixels_loop(vec_1, vec_2, [k \in 1..Len(vec_1) |-> 0], 0)

(***************************************************************************)
(* alternative_pixels by sizes alone, for buffers too large to write out:  *)
(* len_1 and len_2 are the lengths of vec_1 and vec_2 as Nums.  The loop   *)
(* panics when its last window passes the end of vec_1, or when an odd     *)
(* pixel of vec_1's range is not wholly inside vec_2; otherwise it returns *)
(* a vector as long as vec_1.  AltSizesAgree below checks this against     *)
(* alternative_pixels itself.                                              *)
(***************************************************************************)
alternative_pixels_size(len_1, len_2) ==
    LET n_1 == NumDiv(len_1, 4)      \* pixels of vec_1
        n_2 == NumDiv(len_2, 4)      \* whole pixels of vec_2
        odd_missing ==
            /\ NumLess(n_2, n_1)
            /\ \/ NumMod(n_2, 2) = 1
               \/ NumLeq(NumAdd(n_2, ToNum(2)), n_1)
    IN  IF NumMod(len_1, 4) # 0 \/ odd_missing
        THEN Panic
        ELSE Returned(len_1)

(***************************************************************************)
(* Images, as far as main looks at them: a DynamicImage is its dimensions. *)
(***************************************************************************)
dimensions(image) == <<image.width, image.height>>

\* DynamicImage::resize_exact(width, height, Triangle), called at
\* main.rs 98-99: an image of exactly the dimensions asked for
resize_exact(image, width, height) == [width |-> width, height |-> height]

\* length of image.to_rgba8().into_vec() (main.rs 103-104), a usize
RgbaLen(image) ==
    NumMul(NumMul(ToNum(image.width), ToNum(image.height)), ToNum(4))

\* standardise_size resizing only an image that differs from the target
standardise_size_skip(im_1, im_2) ==
    LET t == get_smallest_dimensions(dimensions(im_1), dimensions(im_2))
    IN  IF t.panic THEN Panic
        ELSE LET width  == t.val[1]
                 height == t.val[2]
                 r_1 == dimensions(im_1) # <<width, height>>
                 r_2 == dimensions(im_2) # <<width, height>>
             IN  Returned(
                   [image_1 |-> IF r_1 THEN resize_exact(im_1, width, height)
                                       ELSE im_1,
                    image_2 |-> IF r_2 THEN resize_exact(im_2, width, height)
                                       ELSE im_2,
                    printed |-> <<width, height>>,
                    resized |-> (IF r_1 THEN <<1>> ELSE <<>>)
                                  \o (IF r_2 THEN <<2>> ELSE <<>>)])

\* standardise_size resizing the first image in both branches
standardise_size_first(im_1, im_2) ==
    LET t == get_smallest_dimensions(dimensions(im_1), dimensions(im_2))
    IN  IF t.panic THEN Panic
        ELSE Returned([image_1 |-> resize_exact(im_1, t.val[1], t.val[2]),
                       image_2 |-> im_2,
                       printed |-> t.val,
                       resized |-> <<1>>])

(***************************************************************************)
(* standardise_size (main.rs 93-100).  resized records on which argument   *)
(* resize_exact was invoked.                                               *)
(***************************************************************************)
standardise_size(im_1, im_2) ==
    LET t == get_smallest_dimensions(dimensions(im_1), dimensions(im_2))
    IN  IF t.panic THEN Panic
        ELSE LET width  == t.val[1]
                 height == t.val[2]
             IN  IF dimensions(im_2) = <<width, height>>
                 THEN Returned([image_1 |-> resize_exact(im_1, width, height),
                                image_2 |-> im_2,
                                printed |-> <<width, height>>,
                                resized |-> <<1>>])
                 ELSE Returned([image_1 |-> im_1,
                                image_2 |-> resize_exact(im_2, width, height),
                                printed |-> <<width, height>>,
                                resized |-> <<2>>])

(***************************************************************************)
(* combine_images (main.rs 102-107), by sizes.  A Vec<u8> is its length,   *)
(* its capacity and a mark of where its contents come from.                *)
(***************************************************************************)
combine_images(im_1, im_2) ==
    LET r == alternative_pixels_size(RgbaLen(im_1), RgbaLen(im_2))
    IN  IF r.panic THEN Panic
        ELSE Returned([len |-> r.val, cap |-> r.val, id |-> "combined"])

(***************************************************************************)
(* FloatingImage (main.rs 20-46)                                           *)
(***************************************************************************)
\* FloatingImage::new: buffer_capacity = height * width * 4 in u32, then
\* Vec::with_capacity(buffer_capacity), an empty vector of that capacity
FloatingImage_new(width, height, name) ==
    LET hw == U32Mul(ToNum(height), ToNum(width))
        buffer_capacity == U32Mul(hw.val, ToNum(4))
    IN  IF overflow_checks /\ (hw.overflow \/ buffer_capacity.overflow)
        THEN Panic
        ELSE Returned([width  |-> width,
                       height |-> height,
                       data   |-> [len |-> <<>>,
                                   cap |-> buffer_capacity.val,
                                   id  |-> "empty"],
                       name   |-> name])

\* FloatingImage::set_data: the image afterwards and the Result
set_data(self, data) ==
    IF NumLess(self.data.cap, data.len)
    THEN [self |-> self, ret |-> "BufferTooSmall"]
    ELSE [self |-> [self EXCEPT !.data = data], ret |-> "Ok"]

(***************************************************************************)
(* find_image_from_path (main.rs 70-84), on what lies at the path          *)
(***************************************************************************)
find_image_from_path(file) ==
    CASE file.kind = "unreadable"  -> [err |-> "UnableToReadImageFromPath"]
      [] file.kind = "noformat"    -> [err |-> "UnableToFormatImage"]
      [] file.kind = "undecodable" -> [err |-> "UnableToDecodeImage"]
      [] OTHER -> [err |-> "none",
                   image  |-> [width |-> file.width, height |-> file.height],
                   format |-> file.format]

(***************************************************************************)
(* Inputs                                                                  *)
(***************************************************************************)
U32Dims   == (0..MaxDim) \cup BigDims      \* widths and heights, as u32
ImageDims == (1..MaxDim) \cup BigDims      \* those of a decoded image
Formats   == {"Png", "Jpeg"}

\* what can lie at a path: nothing readable, a file of no known format, a
\* file whose content does not decode, or an image
Files ==
    {[kind |-> k, format |-> "Png", width |-> 1, height |-> 1] :
        k \in {"unreadable", "noformat", "undecodable"}}
    \cup [kind : {"image"}, format : Formats,
          width : ImageDims, height : ImageDims]

\* RGBA pixels and buffers for alternative_pixels: whole pixels followed by
\* up to three stray bytes
PixelVals == {<<17, 34, 51, 68>>, <<255, 0, 128, 1>>}
Strays    == {<<>>, <<7>>, <<7, 8>>, <<7, 8, 9>>}

RECURSIVE Flatten(_)
Flatten(ps) == IF ps = <<>> THEN <<>> ELSE ps[1] \o Flatten(Tail(ps))

Buffers ==
    {Flatten(ps) \o t :
        ps \in UNION {[1..n -> PixelVals] : n \in 0..MaxPixels}, t \in Strays}

\* vectors handed to set_data by a caller: as full as allocated, or with
\* room to spare
Vecs ==
    UNION {{[len |-> ToNum(l), cap |-> ToNum(c), id |-> "arg"] :
              c \in {l, MaxBuf}} : l \in 0..MaxBuf}

PipeIdle ==
    /\ pc = "off" /\ file_1 = None /\ file_2 = None
    /\ image_1 = None /\ image_2 = None
    /\ image_format_1 = NoFormat /\ image_format_2 = NoFormat
    /\ combined_data = None /\ result = NoResult
    /\ stdout = <<>> /\ resize_calls = <<>> /\ stages = <<>> /\ written = 0
DimIdle == dimA = None /\ dimB = None /\ targetDim = None
PixIdle == bufA = None /\ bufB = None /\ merged = None
FIIdle  == output = None /\ last_set = None /\ set_count = 0

(***************************************************************************)
(* main (main.rs 48-68), one action per statement                          *)
(***************************************************************************)
Fail(e) ==
    /\ pc' = "failed"
    /\ result' = e

Abort ==
    /\ pc' = "aborted"
    /\ result' = "panic"

\* line 50: find_image_from_path(args.image_1)?
Load1 ==
    /\ pc = "start"
    /\ stages' = Append(stages, "find_image_1")
    /\ LET r == find_image_from_path(file_1)
       IN  IF r.err # "none"
           THEN Fail(r.err) /\ UNCHANGED <<image_1, image_format_1>>
           ELSE /\ image_1' = r.image
                /\ image_format_1' = r.format
                /\ pc' = "loaded_1"
                /\ UNCHANGED result
    /\ UNCHANGED <<overflow_checks, file_1, file_2, image_2, image_format_2,
                   output, combined_data, stdout, resize_calls, written,
                   last_set, set_count, dimVars, pixVars>>

\* line 51: find_image_from_path(args.image_2)?
Load2 ==
    /\ pc = "loaded_1"
    /\ stages' = Append(stages, "find_image_2")
    /\ LET r == find_image_from_path(file_2)
       IN  IF r.err # "none"
           THEN Fail(r.err) /\ UNCHANGED <<image_2, image_format_2>>
           ELSE /\ image_2' = r.image
                /\ image_format_2' = r.format
                /\ pc' = "loaded_2"
                /\ UNCHANGED result
    /\ UNCHANGED <<overflow_checks, file_1, file_2, image_1, image_format_1,
                   output, combined_data, stdout, resize_calls, written,
                   last_set, set_count, dimVars, pixVars>>

\* the format check left out
FormatCheck_none ==
    /\ pc = "loaded_2"
    /\ stages' = Append(stages, "format_check")
    /\ pc' = "format_checked"
    /\ UNCHANGED <<overflow_checks, file_1, file_2, image_1, image_2,
                   image_format_1, image_format_2, output, combined_data,
                   result, stdout, resize_calls, written, last_set, set_count,
                   dimVars, pixVars>>

\* lines 53-55: the format check
FormatCheck ==
    /\ pc = "loaded_2"
    /\ stages' = Append(stages, "format_check")
    /\ IF image_format_1 # image_format_2
       THEN Fail("DifferentImageFormats")
       ELSE pc' = "format_checked" /\ UNCHANGED result
    /\ UNCHANGED <<overflow_checks, file_1, file_2, image_1, image_2,
                   image_format_1, image_format_2, output, combined_data,
                   stdout, resize_calls, written, last_set, set_count, dimVars,
                   pixVars>>

\* line 57: standardise_size(image_1, image_2)
StandardiseSize ==
    /\ pc = "format_checked"
    /\ stages' = Append(stages, "standardise_size")
    /\ LET r == standardise_size(image_1, image_2)
       IN  IF r.panic
           THEN Abort /\ UNCHANGED <<image_1, image_2, stdout, resize_calls>>
           ELSE /\ image_1' = r.val.image_1
                /\ image_2' = r.val.image_2
                /\ stdout' = Append(stdout, r.val.printed)
                /\ resize_calls' = resize_calls \o r.val.resized
                /\ pc' = "resampled"
                /\ UNCHANGED result
    /\ UNCHANGED <<overflow_checks, file_1, file_2, image_format_1,
                   image_format_2, output, combined_data, written,
                   last_set, set_count, dimVars, pixVars>>

\* line 58: FloatingImage::new(image_1.width(), image_1.height(), args.output)
NewOutput ==
    /\ pc = "resampled"
    /\ stages' = Append(stages, "new")
    /\ LET r == FloatingImage_new(image_1.width, image_1.height, "output")
       IN  IF r.panic
           THEN Abort /\ UNCHANGED output
           ELSE output' = r.val /\ pc' = "allocated" /\ UNCHANGED result
    /\ UNCHANGED <<overflow_checks, file_1, file_2, image_1, image_2,
                   image_format_1, image_format_2, combined_data, stdout,
                   resize_calls, written, last_set, set_count, dimVars,
                   pixVars>>

\* line 60: combine_images(image_1, image_2)
CombineImages ==
    /\ pc = "allocated"
    /\ stages' = Append(stages, "combine_images")
    /\ LET r == combine_images(image_1, image_2)
       IN  IF r.panic
           THEN Abort /\ UNCHANGED combined_data
           ELSE combined_data' = r.val /\ pc' = "combined" /\ UNCHANGED result
    /\ UNCHANGED <<overflow_checks, file_1, file_2, image_1, image_2,
                   image_format_1, image_format_2, output, stdout,
                   resize_calls, written, last_set, set_count, dimVars,
                   pixVars>>

\* set_data's Result dropped instead of propagated with `?`
SetData_unchecked ==
    /\ pc = "combined"
    /\ stages' = Append(stages, "set_data")
    /\ LET r == set_data(output, combined_data)
       IN  /\ output' = r.self
           /\ last_set' = [data |-> combined_data, ret |-> r.ret,
                           prior |-> output.data]
           /\ set_count' = set_count + 1
           /\ pc' = "data_set"
    /\ UNCHANGED <<overflow_checks, file_1, file_2, image_1, image_2,
                   image_format_1, image_format_2, combined_data, result,
                   stdout, resize_calls, written, dimVars, pixVars>>

\* line 61: output.set_data(combined_data)?
SetData ==
    /\ pc = "combined"
    /\ stages' = Append(stages, "set_data")
    /\ LET r == set_data(output, combined_data)
       IN  /\ output' = r.self
           /\ last_set' = [data |-> combined_data, ret |-> r.ret,
                           prior |-> output.data]
           /\ set_count' = set_count + 1
           /\ IF r.ret # "Ok"
              THEN Fail(r.ret)
              ELSE pc' = "data_set" /\ UNCHANGED result
    /\ UNCHANGED <<overflow_checks, file_1, file_2, image_1, image_2,
                   image_format_1, image_format_2, combined_data, stdout,
                   resize_calls, written, dimVars, pixVars>>

\* lines 63-67: image::save_buffer_with_format(...), which writes the file
\* or fails
Save ==
    /\ pc = "data_set"
    /\ stages' = Append(stages, "save")
    /\ written' = written + 1
    /\ \E saved \in BOOLEAN :
         IF saved
         THEN pc' = "saved" /\ result' = "Ok"
         ELSE Fail("UnableToSaveImage")
    /\ UNCHANGED <<overflow_checks, file_1, file_2, image_1, image_2,
                   image_format_1, image_format_2, output, combined_data,
                   stdout, resize_calls, last_set, set_count, dimVars, pixVars>>

Init ==
    /\ overflow_checks \in BOOLEAN
    /\ pc = "start"
    /\ file_1 \in Files /\ file_2 \in Files
    /\ image_1 = None /\ image_2 = None
    /\ image_format_1 = NoFormat /\ image_format_2 = NoFormat
    /\ combined_data = None /\ result = NoResult
    /\ stdout = <<>> /\ resize_calls = <<>> /\ stages = <<>> /\ written = 0
    /\ FIIdle /\ DimIdle /\ PixIdle

Next ==
    \/ Load1 \/ Load2 \/ FormatCheck \/ StandardiseSize
    \/ NewOutput \/ CombineImages \/ SetData \/ Save

Spec == Init /\ [][Next]_vars

(***************************************************************************)
(* get_smallest_dimensions on its own                                      *)
(***************************************************************************)
Reconcile ==
    /\ targetDim = None
    /\ targetDim' = get_smallest_dimensions(dimA, dimB)
    /\ UNCHANGED <<overflow_checks, pipeVars, fiVars, dimA, dimB, pixVars>>

InitDims ==
    /\ overflow_checks \in BOOLEAN
    /\ dimA \in U32Dims \X U32Dims
    /\ dimB \in U32Dims \X U32Dims
    /\ targetDim = None
    /\ PipeIdle /\ FIIdle /\ PixIdle

SpecDims == InitDims /\ [][Reconcile]_vars

(***************************************************************************)
(* alternative_pixels on its own                                           *)
(***************************************************************************)
Interleave ==
    /\ merged = None
    /\ merged' = alternative_pixels(bufA, bufB)
    /\ UNCHANGED <<overflow_checks, pipeVars, fiVars, dimVars, bufA, bufB>>

InitPix ==
    /\ overflow_checks = FALSE
    /\ bufA \in Buffers
    /\ bufB \in Buffers
    /\ merged = None
    /\ PipeIdle /\ FIIdle /\ DimIdle

SpecPix == InitPix /\ [][Interleave]_vars

(***************************************************************************)
(* FloatingImage on its own: new, then set_data calls                      *)
(***************************************************************************)
CallNew ==
    /\ output = None
    /\ \E width \in U32Dims, height \in U32Dims :
         LET r == FloatingImage_new(width, height, "output")
         IN  output' = IF r.panic THEN Panic ELSE r.val
    /\ UNCHANGED <<overflow_checks, pipeVars, last_set, set_count, dimVars,
                   pixVars>>

CallSetData ==
    /\ output # None /\ output # Panic
    /\ set_count < MaxCalls
    /\ \E data \in Vecs :
         LET r == set_data(output, data)
         IN  /\ output' = r.self
             /\ last_set' = [data |-> data, ret |-> r.ret,
                             prior |-> output.data]
             /\ set_count' = set_count + 1
    /\ UNCHANGED <<overflow_checks, pipeVars, dimVars, pixVars>>

InitFI ==
    /\ overflow_checks \in BOOLEAN
    /\ PipeIdle /\ FIIdle /\ DimIdle /\ PixIdle

NextFI == CallNew \/ CallSetData

SpecFI == InitFI /\ [][NextFI]_vars

(***************************************************************************)
(* Properties                                                              *)
(***************************************************************************)
\* the capacity W*H*4 an Output Image of these dimensions declares, as a
\* mathematical integer
Declared(image) ==
    NumMul(NumMul(ToNum(image.width), ToNum(image.height)), ToNum(4))

IsImage(o) == o # None /\ o # Panic

Terminal == {"saved", "failed", "aborted"}

AllStages ==
    <<"find_image_1", "find_image_2", "format_check", "standardise_size",
      "new", "combine_images", "set_data", "save">>

Called(stage) == \E k \in 1..Len(stages) : stages[k] = stage

\* the dimensions the two images were decoded with
Decoded1 == <<file_1.width, file_1.height>>
Decoded2 == <<file_2.width, file_2.height>>

\* alternative_pixels_size says of the lengths what alternative_pixels does
\* on the bytes: the same panics, the same length returned
AltSizesAgree ==
    merged # None =>
        LET a == alternative_pixels_size(ToNum(Len(bufA)), ToNum(Len(bufB)))
        IN  /\ a.panic = merged.panic
            /\ ~a.panic => a.val = ToNum(Len(merged.val))

----------------------------------------------------------------------------
\* C1, as stated: get_smallest_dimensions returns the pair of strictly
\* smaller area width*height, and the first argument when the areas are equal.
C1_FirstWinsTie ==
    (targetDim # None /\ ~targetDim.panic) =>
        targetDim.val = IF NumLess(Area(dimB), Area(dimA)) THEN dimB ELSE dimA

\* C1, amended: whenever get_smallest_dimensions returns, it returns the first
\* argument if its area, as the u32 product the code computes, is strictly
\* smaller than the second's, and the second argument otherwise, so on every
\* tie; when both areas fit in 32 bits these are the areas width*height.
C1_SecondWinsTie ==
    (targetDim # None /\ ~targetDim.panic) =>
        /\ targetDim.val =
              IF NumLess(Wrap32(Area(dimA)), Wrap32(Area(dimB)))
              THEN dimA ELSE dimB
        /\ (Fits32(Area(dimA)) /\ Fits32(Area(dimB))) =>
              targetDim.val =
                IF NumLess(Area(dimA), Area(dimB)) THEN dimA ELSE dimB

\* a tie between different pairs, answered with the second
C1_Witness ==
    /\ targetDim = Returned(dimB)
    /\ Area(dimA) = Area(dimB)
    /\ Area(dimA) # <<>>
    /\ dimA # dimB

\* C9: get_smallest_dimensions returns for every pair of u32 dimension pairs,
\* without aborting, and chooses by the true areas width*height, also when a
\* product exceeds the u32 range.
C9_TotalByTrueArea ==
    targetDim # None =>
        /\ ~targetDim.panic
        /\ NumLess(Area(dimA), Area(dimB)) => targetDim.val = dimA
        /\ NumLess(Area(dimB), Area(dimA)) => targetDim.val = dimB

----------------------------------------------------------------------------
\* C2: for buffers of equal length L, a multiple of 4, alternative_pixels
\* returns a buffer of length L whose pixel p (bytes 4p .. 4p+3) is pixel p of
\* the first buffer when p is even and of the second when p is odd.
C2_Interleave ==
    (merged # None /\ Len(bufA) = Len(bufB) /\ Len(bufA) % 4 = 0) =>
        /\ ~merged.panic
        /\ Len(merged.val) = Len(bufA)
        /\ \A p \in 0..(Len(bufA) \div 4 - 1) :
             SubSeq(merged.val, 4 * p + 1, 4 * p + 4) =
                IF p % 2 = 0 THEN SubSeq(bufA, 4 * p + 1, 4 * p + 4)
                             ELSE SubSeq(bufB, 4 * p + 1, 4 * p + 4)

\* three pixels interleaved from buffers that differ in every pixel
C2_Witness ==
    /\ merged # None /\ ~merged.panic
    /\ Len(bufA) = 12 /\ Len(bufB) = 12
    /\ \A p \in 0..2 : SubSeq(bufA, 4 * p + 1, 4 * p + 4)
                          # SubSeq(bufB, 4 * p + 1, 4 * p + 4)
    /\ merged.val = SubSeq(bufA, 1, 4) \o SubSeq(bufB, 5, 8)
                      \o SubSeq(bufA, 9, 12)

----------------------------------------------------------------------------
\* C3, as stated: resize_exact is invoked only on an image whose dimensions
\* differ from the target printed by standardise_size; when both images
\* already have the target dimensions it is invoked on neither.
C3_NoRedundantResize ==
    Len(stdout) = 1 =>
        /\ \A k \in 1..Len(resize_calls) :
             (IF resize_calls[k] = 1 THEN Decoded1 ELSE Decoded2) # stdout[1]
        /\ (Decoded1 = stdout[1] /\ Decoded2 = stdout[1]) =>
             resize_calls = <<>>

\* C3, amended: standardise_size invokes resize_exact exactly once: on the
\* first image when the second image's dimensions equal the target (whether
\* or not the first image's do too), and on the second image otherwise.  So
\* the second image is passed through whenever it has the target dimensions,
\* an image whose dimensions differ from the target is always resized, and
\* the two are never both resized.
C3_OneResize ==
    Len(stdout) = 1 =>
        /\ resize_calls = IF Decoded2 = stdout[1] THEN <<1>> ELSE <<2>>
        /\ Decoded1 # stdout[1] => resize_calls = <<1>>
        /\ Decoded2 # stdout[1] => resize_calls = <<2>>

\* both images decoded with the target dimensions, the first one resized
C3_Witness ==
    /\ Len(stdout) = 1
    /\ Decoded1 = stdout[1] /\ Decoded2 = stdout[1]
    /\ resize_calls = <<1>>

----------------------------------------------------------------------------
\* C4: when both images load and their formats differ, main returns
\* DifferentImageFormats and has called neither standardise_size nor
\* combine_images nor the save: nothing after the format check ran.
C4_FormatMismatch ==
    (/\ image_format_1 # NoFormat /\ image_format_2 # NoFormat
     /\ image_format_1 # image_format_2) =>
        /\ pc \in {"loaded_2", "failed"}
        /\ pc = "loaded_2" => ENABLED FormatCheck
        /\ pc = "failed" =>
              /\ result = "DifferentImageFormats"
              /\ stages = SubSeq(AllStages, 1, 3)
        /\ ~Called("standardise_size") /\ ~Called("combine_images")
        /\ ~Called("save")
        /\ written = 0 /\ resize_calls = <<>> /\ stdout = <<>>
        /\ output = None /\ combined_data = None

C4_Witness ==
    /\ pc = "failed" /\ result = "DifferentImageFormats"
    /\ file_1.kind = "image" /\ file_2.kind = "image"

----------------------------------------------------------------------------
\* C5: set_data on an Output Image made by FloatingImage::new(W, H, name)
\* returns BufferTooSmall and leaves the data as it was when the buffer is
\* longer than W*H*4, and accepts and stores the buffer whole when its length
\* is at most W*H*4.
C5_CapacityCheck ==
    (IsImage(output) /\ set_count = 1) =>
        IF NumLess(Declared(output), last_set.data.len)
        THEN last_set.ret = "BufferTooSmall" /\ output.data = last_set.prior
        ELSE last_set.ret = "Ok" /\ output.data = last_set.data

\* C8: after any sequence of set_data calls the stored data is no longer than
\* the declared capacity W*H*4.
C8_WithinDeclared ==
    IsImage(output) => NumLeq(output.data.len, Declared(output))

----------------------------------------------------------------------------
\* C6: the save is called at most once, and only after both loads, the format
\* check, standardise_size, new, combine_images and set_data all succeeded, in
\* that order; a failing stage ends main with its error, and main makes no
\* further call after it has ended.
C6_SaveLast ==
    /\ written <= 1
    /\ Called("save") <=> written = 1
    /\ written = 1 =>
         /\ stages = AllStages
         /\ file_1.kind = "image" /\ file_2.kind = "image"
         /\ image_format_1 = image_format_2
         /\ set_count = 1 /\ last_set.ret = "Ok"
         /\ output.data = combined_data
    /\ \E n \in 0..Len(AllStages) : stages = SubSeq(AllStages, 1, n)
    /\ pc \in Terminal => ~ENABLED Next
    /\ pc \in {"failed", "aborted"} <=> result \notin {NoResult, "Ok"}
    /\ (pc # "start" /\ file_1.kind # "image") =>
         /\ pc = "failed" /\ result = find_image_from_path(file_1).err
         /\ stages = SubSeq(AllStages, 1, 1)
    /\ (Called("find_image_2") /\ file_2.kind # "image") =>
         /\ pc = "failed" /\ result = find_image_from_path(file_2).err
         /\ stages = SubSeq(AllStages, 1, 2)
    /\ (set_count = 1 /\ last_set.ret # "Ok") =>
         /\ pc = "failed" /\ result = last_set.ret
         /\ stages = SubSeq(AllStages, 1, 7)

C6_Witness ==
    /\ pc = "saved" /\ written = 1 /\ result = "Ok"
    /\ Decoded1 # Decoded2

----------------------------------------------------------------------------
\* C7: after standardise_size both images have the target dimensions, so
\* combine_images works on two buffers of the same length w*h*4 and never
\* aborts on an index or a range out of bounds.
C7_NoOutOfBounds ==
    /\ Len(stdout) = 1 =>
         /\ dimensions(image_1) = stdout[1]
         /\ dimensions(image_2) = stdout[1]
         /\ RgbaLen(image_1) = RgbaLen(image_2)
         /\ RgbaLen(image_1) =
              NumMul(Area(stdout[1]), ToNum(4))
    /\ Called("combine_images") =>
         /\ combined_data # None
         /\ combined_data.len = RgbaLen(image_1)
         /\ ~(pc = "aborted" /\ stages[Len(stages)] = "combine_images")

\* images of different dimensions, one resized, the two combined
C7_Witness ==
    /\ pc = "combined"
    /\ Decoded1 # Decoded2
    /\ Area(Decoded1) # Area(Decoded2)

----------------------------------------------------------------------------
\* C10: whenever main has the combined buffer, its length equals the capacity
\* FloatingImage::new computed for the output; set_data never returns
\* BufferTooSmall and FloatingImage::new never aborts.
C10_CapacityFits ==
    /\ pc = "combined" => combined_data.len = output.data.cap
    /\ result # "BufferTooSmall"
    /\ ~(pc = "aborted" /\ stages[Len(stages)] = "new")

====
